---- MODULE Spec2Model ----
(***************************************************************************)
(* Model of hello_world.py: the greeting function greet(name="World"),     *)
(* the entry point main() and the module-level guard that runs main() when *)
(* the file is executed as a script.                                       *)
(*                                                                         *)
(* A Python str is a sequence of one-character strings.  A Python value is *)
(* a record [tag, s]: tag is the type's name and s the characters of a     *)
(* str (empty for values of other types).  Standard output is the stream   *)
(* of characters written so far.                                           *)
(***************************************************************************)
EXTENDS Naturals, Sequences, FiniteSets, TLC

VARIABLES
    name,       \* __name__ of the module: "__main__" when run as a script
    pc,         \* the statement the interpreter is at
    stdout,     \* the characters written to standard output so far
    ret,        \* outcome of the most recent call of greet
    calls,      \* history: the (at most two) most recent calls of greet
    mark,       \* history: Len(stdout) when main() was last entered
    runs,       \* history: number of calls of main() that have returned
    status,     \* exit status of the process ("running" until it ends)
    op          \* history: the kind of statement executed last

vars == <<name, pc, stdout, ret, calls, mark, runs, status, op>>

----------------------------------------------------------------------------
(* Bounds of the model *)

\* longest name the importing client builds out of Alphabet
MaxLen == 2

\* number of times the importing client calls main()
MaxRuns == 2

----------------------------------------------------------------------------
(* Python values *)

Str(s) == [tag |-> "str", s |-> s]

None == [tag |-> "NoneType", s |-> <<>>]

TypeError == [tag |-> "TypeError", s |-> <<>>]

Return(v) == [kind |-> "return", value |-> v]

Raise(e) == [kind |-> "raise", value |-> e]

NoOutcome == [kind |-> "unset", value |-> None]

NL == "\n"

\* the literal text of the f-string before and after the replacement field
Hello == <<"H", "e", "l", "l", "o", ",", " ">>

Bang == <<"!">>

\* mutant: the default misspelt in lower case
DefaultName_lower == Str(<<"w", "o", "r", "l", "d">>)

\* the default of the parameter name
DefaultName == Str(<<"W", "o", "r", "l", "d">>)

Claude == <<"C", "l", "a", "u", "d", "e">>

GitHubActions ==
    <<"G", "i", "t", "H", "u", "b", " ", "A", "c", "t", "i", "o", "n", "s">>

----------------------------------------------------------------------------
(* Inputs of the importing client *)

Alphabet == {" ", "!", "a"}

BoundedStrings == UNION {[1..n -> Alphabet] : n \in 0..MaxLen}

SampleStrings ==
    { <<"W", "o", "r", "l", "d">>, Claude, GitHubActions,
      <<"N", "o", "n", "e">>,
      Hello,
      Hello \o <<"a">> \o Bang,
      <<" ">> \o Claude \o <<" ">> }

Strings == BoundedStrings \cup SampleStrings

Values == {Str(s) : s \in Strings} \cup {None}

ArgLists ==
    {<<>>} \cup {<<v>> : v \in Values}
           \cup {<<v, w>> : v \in {Str(<<>>), None}, w \in {Str(<<>>), None}}

----------------------------------------------------------------------------
(* greet *)

\* str(v), which is also format(v, "") for a str and for None
Format(v) ==
    IF v.tag = "str" THEN v.s ELSE <<"N", "o", "n", "e">>

\* mutant: name = name or "World", the default replaces any falsy argument
Bind_falsy(args) ==
    IF Len(args) = 0 \/ args[1] \in {None, Str(<<>>)}
    THEN DefaultName
    ELSE args[1]

\* binding of the positional arguments to the parameter name
Bind(args) ==
    IF Len(args) = 0 THEN DefaultName ELSE args[1]

\* s without its leading and trailing blanks
Strip(s) ==
    LET keep == {i \in DOMAIN s : s[i] # " "}
        lo == CHOOSE i \in keep : \A j \in keep : i <= j
        hi == CHOOSE i \in keep : \A j \in keep : j <= i
    IN  IF keep = {} THEN <<>> ELSE SubSeq(s, lo, hi)

\* mutant: the name is trimmed before it is formatted
greet_strip(args) ==
    IF Len(args) > 1
    THEN Raise(TypeError)
    ELSE Return(Str(Hello \o Strip(Format(Bind(args))) \o Bang))

\* mutant: the name is validated, an empty one is rejected
greet_validates(args) ==
    IF Len(args) > 1
    THEN Raise(TypeError)
    ELSE IF Format(Bind(args)) = <<>>
         THEN Raise([tag |-> "ValueError", s |-> <<>>])
         ELSE Return(Str(Hello \o Format(Bind(args)) \o Bang))

\* mutant: the greeting ends with a newline of its own
greet_newline(args) ==
    IF Len(args) > 1
    THEN Raise(TypeError)
    ELSE Return(Str(Hello \o Format(Bind(args)) \o Bang \o <<NL>>))

\* mutant: exclamation marks are removed from the name
greet_sanitize(args) ==
    IF Len(args) > 1
    THEN Raise(TypeError)
    ELSE Return(Str(Hello
                    \o SelectSeq(Format(Bind(args)), LAMBDA c : c # "!")
                    \o Bang))

greet(args) ==
    IF Len(args) > 1
    THEN Raise(TypeError)
    ELSE Return(Str(Hello \o Format(Bind(args)) \o Bang))

\* mutant: print(v, end="")
print_noend(out, v) == out \o Format(v)

\* print(v): str(v) and a newline go to standard output
print(out, v) == out \o Format(v) \o <<NL>>

Remember(h, c) == IF Len(h) < 2 THEN Append(h, c) ELSE <<h[2], c>>

\* mutant: greet reports each call on standard output
GreetCall_logs(args) ==
    /\ ret' = greet(args)
    /\ calls' = Remember(calls, [args |-> args, out |-> greet(args)])
    /\ stdout' = print(stdout, greet(args).value)
    /\ op' = "greet"

\* one call of greet: it computes its outcome and touches nothing else
GreetCall(args) ==
    /\ ret' = greet(args)
    /\ calls' = Remember(calls, [args |-> args, out |-> greet(args)])
    /\ stdout' = stdout
    /\ op' = "greet"

----------------------------------------------------------------------------
(* The program *)

Init ==
    /\ name \in {"__main__", "hello_world"}
    /\ pc = "guard"
    /\ stdout = <<>>
    /\ ret = NoOutcome
    /\ calls = <<>>
    /\ mark = 0
    /\ runs = 0
    /\ status = "running"
    /\ op = "def"

\* where control goes when main() is left
Caller == IF name = "__main__" THEN "exit" ELSE "imported"

\* if __name__ == "__main__": main()
ModuleGuard ==
    /\ pc = "guard"
    /\ IF name = "__main__"
       THEN /\ pc' = "12c"
            /\ op' = "call_main"
       ELSE /\ pc' = "imported"
            /\ op' = "import"
    /\ mark' = Len(stdout)
    /\ UNCHANGED <<name, stdout, ret, calls, runs, status>>

\* print(greet(...)), first half: the argument of print is evaluated
CallSite(here, args, next) ==
    /\ pc = here
    /\ GreetCall(args)
    /\ IF greet(args).kind = "return"
       THEN /\ pc' = next
            /\ status' = status
       ELSE /\ pc' = Caller
            /\ status' = IF name = "__main__" THEN "failure" ELSE status
    /\ UNCHANGED <<name, mark, runs>>

\* print(greet(...)), second half: the returned string is written
PrintSite(here, next) ==
    /\ pc = here
    /\ stdout' = print(stdout, ret.value)
    /\ pc' = next
    /\ op' = "print"
    /\ UNCHANGED <<name, ret, calls, mark, runs, status>>

\* mutant: a module-level flag lets only the first run greet the world
Line12Call_once ==
    IF runs = 0
    THEN CallSite("12c", <<>>, "12p")
    ELSE /\ pc = "12c"
         /\ pc' = "13c"
         /\ UNCHANGED <<name, stdout, ret, calls, mark, runs, status, op>>

Line12Call == CallSite("12c", <<>>, "12p")

Line12Print == PrintSite("12p", "13c")

Line13Call == CallSite("13c", <<Str(Claude)>>, "13p")

\* mutant: main() returns after its second line
Line13Print_return == PrintSite("13p", "return")

Line13Print == PrintSite("13p", "14c")

Line14Call == CallSite("14c", <<Str(GitHubActions)>>, "14p")

Line14Print == PrintSite("14p", "return")

\* main() falls off its end; a script then ends with exit status 0
MainReturn ==
    /\ pc = "return"
    /\ pc' = Caller
    /\ runs' = runs + 1
    /\ status' = IF name = "__main__" THEN "success" ELSE status
    /\ op' = "return"
    /\ UNCHANGED <<name, stdout, ret, calls, mark>>

\* a client that imported the module calls greet
ClientGreet ==
    /\ pc = "imported"
    /\ \E args \in ArgLists : GreetCall(args)
    /\ UNCHANGED <<name, pc, mark, runs, status>>

\* a client that imported the module calls main()
ClientMain ==
    /\ pc = "imported"
    /\ runs < MaxRuns
    /\ pc' = "12c"
    /\ mark' = Len(stdout)
    /\ op' = "call_main"
    /\ UNCHANGED <<name, stdout, ret, calls, runs, status>>

Interpreter ==
    \/ ModuleGuard
    \/ Line12Call
    \/ Line12Print
    \/ Line13Call
    \/ Line13Print
    \/ Line14Call
    \/ Line14Print
    \/ MainReturn

Next ==
    \/ Interpreter
    \/ ClientGreet
    \/ ClientMain

Spec == Init /\ [][Next]_vars

\* the interpreter is single-threaded and never suspends a running statement
FairSpec == Spec /\ WF_vars(Interpreter)

----------------------------------------------------------------------------
(* Vocabulary of the properties: the literal texts the specification names *)

HelloWorldText ==
    <<"H", "e", "l", "l", "o", ",", " ", "W", "o", "r", "l", "d", "!">>

HelloClaudeText ==
    <<"H", "e", "l", "l", "o", ",", " ", "C", "l", "a", "u", "d", "e", "!">>

HelloGitHubActionsText ==
    <<"H", "e", "l", "l", "o", ",", " ", "G", "i", "t", "H", "u", "b", " ",
      "A", "c", "t", "i", "o", "n", "s", "!">>

HelloNoneText ==
    <<"H", "e", "l", "l", "o", ",", " ", "N", "o", "n", "e", "!">>

HelloEmptyText == <<"H", "e", "l", "l", "o", ",", " ", "!">>

HelloPrefixText == <<"H", "e", "l", "l", "o", ",", " ">>

WorldText == <<"W", "o", "r", "l", "d">>

Whitespace == {" ", "\n", "\t"}

\* the recorded calls of greet whose single argument is a str
StringCalls ==
    {i \in DOMAIN calls :
        Len(calls[i].args) = 1 /\ calls[i].args[1].tag = "str"}

\* the name passed and the text returned by the recorded call i
NameOf(i) == calls[i].args[1].s

TextOf(i) == calls[i].out.value.s

IsPrefix(s, t) == Len(s) <= Len(t) /\ SubSeq(t, 1, Len(s)) = s

\* the first k of the three lines, as they appear on standard output
LinesOut(k) ==
    CASE k = 0 -> <<>>
      [] k = 1 -> HelloWorldText \o <<"\n">>
      [] k = 2 -> HelloWorldText \o <<"\n">> \o HelloClaudeText \o <<"\n">>
      [] OTHER -> HelloWorldText \o <<"\n">> \o HelloClaudeText \o <<"\n">>
                    \o HelloGitHubActionsText \o <<"\n">>

\* what the current (or last) call of main() has written
Written == SubSeq(stdout, mark + 1, Len(stdout))

InMain == pc \in {"12c", "12p", "13c", "13p", "14c", "14p", "return"}

\* s repeated k times
Repeat(s, k) == [i \in 1..(k * Len(s)) |-> s[((i - 1) % Len(s)) + 1]]

----------------------------------------------------------------------------
(* C1 *)

\* C1: for every string n, greet(n) returns exactly "Hello, " + n + "!",
\* the name inserted as given (no trimming, validation or substitution);
\* greet("") returns "Hello, !".
C1_GreetIsConcatenation ==
    \A i \in StringCalls :
        /\ calls[i].out.kind = "return"
        /\ calls[i].out.value.tag = "str"
        /\ TextOf(i) = HelloPrefixText \o NameOf(i) \o <<"!">>
        /\ NameOf(i) = <<>> => TextOf(i) = HelloEmptyText

\* greet("") and a name that itself contains "Hello, " and "!" were called
C1_Witness ==
    /\ Len(calls) = 2
    /\ calls[1].args = <<Str(<<>>)>>
    /\ calls[1].out = Return(Str(HelloEmptyText))
    /\ calls[2].args = <<Str(HelloPrefixText \o <<"a", "!">>)>>
    /\ calls[2].out =
         Return(Str(HelloPrefixText \o HelloPrefixText \o <<"a", "!", "!">>))

----------------------------------------------------------------------------
(* C2 *)

\* C2: greet() with no argument returns the same as greet("World"), namely
\* "Hello, World!", and the default is used exactly when no argument is
\* supplied: a supplied name other than "World" never yields that text.
C2_DefaultIsWorld ==
    \A i \in DOMAIN calls :
        /\ calls[i].args = <<>> => calls[i].out = Return(Str(HelloWorldText))
        /\ calls[i].args = <<Str(WorldText)>>
             => calls[i].out = Return(Str(HelloWorldText))
        /\ (Len(calls[i].args) = 1 /\ calls[i].args[1] # Str(WorldText))
             => calls[i].out # Return(Str(HelloWorldText))

\* greet() and greet("World") were called one after the other, same result
C2_Witness ==
    /\ Len(calls) = 2
    /\ calls[1].args = <<>>
    /\ calls[2].args = <<Str(WorldText)>>
    /\ calls[1].out = calls[2].out
    /\ ret = Return(Str(HelloWorldText))

----------------------------------------------------------------------------
(* C3 *)

\* C3, at each point of a run of main(): what the run has written so far is
\* the first 0, 1, 2 or 3 of the three lines, as many as print statements
\* have been executed, and all three and nothing more when main() returns.
C3_WrittenSoFar ==
    /\ mark <= Len(stdout)
    /\ pc \in {"12c", "12p"} => Written = LinesOut(0)
    /\ pc \in {"13c", "13p"} => Written = LinesOut(1)
    /\ pc \in {"14c", "14p"} => Written = LinesOut(2)
    /\ pc = "return" => Written = LinesOut(3)
    /\ InMain => IsPrefix(Written, LinesOut(3))

\* C3: one run of main() appends to standard output exactly the three lines
\* "Hello, World!", "Hello, Claude!", "Hello, GitHub Actions!" in this order
\* and no others; at every point of the run the output written so far is a
\* prefix of that sequence, and output once written is never changed.
C3_MainWritesThreeLines ==
    /\ []C3_WrittenSoFar
    /\ [][IsPrefix(stdout, stdout')]_vars
    /\ [][(pc = "return" /\ pc' # "return")
            => SubSeq(stdout', mark + 1, Len(stdout')) = LinesOut(3)]_vars

\* main() has written its three lines and is about to return
C3_Witness ==
    /\ pc = "return"
    /\ Written = LinesOut(3)
    /\ op = "print"

----------------------------------------------------------------------------
(* C4 *)

\* any two recorded calls with the same arguments have the same outcome
C4_SameArgsSameOutcome ==
    \A i, j \in DOMAIN calls :
        calls[i].args = calls[j].args => calls[i].out = calls[j].out

----------------------------------------------------------------------------
(* C5 *)

\* main() is a straight line: every statement has one successor
C5_Linear ==
    /\ pc = "12c" => pc' \in {"12c", "12p"}
    /\ pc = "12p" => pc' \in {"12p", "13c"}
    /\ pc = "13c" => pc' \in {"13c", "13p"}
    /\ pc = "13p" => pc' \in {"13p", "14c"}
    /\ pc = "14c" => pc' \in {"14c", "14p"}
    /\ pc = "14p" => pc' \in {"14p", "return"}
    /\ pc = "return" => pc' \in {"return", Caller}
    /\ pc = "exit" => pc' = "exit"

\* C5: every run of the program terminates, with the success status and
\* only after all three lines have been written; there is no branch, loop
\* or error exit: main() is one linear pass of three greet-and-print steps
\* followed by normal termination.
C5_Terminates ==
    /\ (name = "__main__") ~> (pc = "exit")
    /\ InMain ~> ~InMain
    /\ [](pc = "exit" => (status = "success" /\ stdout = LinesOut(3)))
    /\ [](status # "failure")
    /\ [](status = "success" <=> pc = "exit")
    /\ [][C5_Linear]_vars

\* the script has ended successfully
C5_Witness ==
    /\ name = "__main__"
    /\ pc = "exit"
    /\ status = "success"
    /\ runs = 1

----------------------------------------------------------------------------
(* C6 *)

\* C6: greet has no error outcome: for every string input, the empty string
\* included, the call returns a greeting string; it never raises and never
\* returns anything but a str.
C6_NoErrorOutcome ==
    /\ \A i \in StringCalls :
          /\ calls[i].out.kind = "return"
          /\ calls[i].out.value.tag = "str"
    /\ (calls # <<>> /\ Len(calls)  \in StringCalls)
          => (ret.kind = "return" /\ ret.value.tag = "str")

\* greet("") returned a string, right after a call that did raise
C6_Witness ==
    /\ Len(calls) = 2
    /\ calls[1].out.kind = "raise"
    /\ calls[2].args = <<Str(<<>>)>>
    /\ ret.kind = "return"

----------------------------------------------------------------------------
(* C7 *)

\* C7: for every string n, whatever whitespace n begins or ends with, the
\* result of greet(n) has no leading or trailing whitespace: its first seven
\* characters are "Hello, " and its last character is "!".
C7_NoOuterWhitespace ==
    \A i \in StringCalls :
        /\ Len(TextOf(i)) >= 8
        /\ SubSeq(TextOf(i), 1, 7) = HelloPrefixText
        /\ TextOf(i)[Len(TextOf(i))] = "!"
        /\ TextOf(i)[1] \notin Whitespace
        /\ TextOf(i)[Len(TextOf(i))] \notin Whitespace

\* greet was called with a name that begins and ends with a blank
C7_Witness ==
    \E i \in StringCalls :
        /\ NameOf(i) = <<" ", "C", "l", "a", "u", "d", "e", " ">>
        /\ calls[i].out.kind = "return"

----------------------------------------------------------------------------
(* C8 *)

\* C8: no state persists between calls of main(): every completed call has
\* written the same three lines in the same order, so after k completed
\* calls the output is the three-line sequence repeated k times.
C8_RunsRepeat ==
    /\ pc \in {"imported", "exit"} => stdout = Repeat(LinesOut(3), runs)
    /\ InMain => SubSeq(stdout, 1, mark) = Repeat(LinesOut(3), runs)

\* main() has completed twice
C8_Witness ==
    /\ pc = "imported"
    /\ runs = 2
    /\ stdout = LinesOut(3) \o LinesOut(3)

----------------------------------------------------------------------------
(* C9 *)

\* C9: greet is injective on strings and the name can be recovered from the
\* greeting: greet(a) = greet(b) implies a = b; removing the 7-character
\* prefix and the 1-character suffix of greet(n) gives n; the length of
\* greet(n) is the length of n plus 8.
C9_Injective ==
    /\ \A i, j \in StringCalls :
          calls[i].out = calls[j].out => NameOf(i) = NameOf(j)
    /\ \A i \in StringCalls :
          /\ Len(TextOf(i)) = Len(NameOf(i)) + 8
          /\ SubSeq(TextOf(i), 8, Len(TextOf(i)) - 1) = NameOf(i)

\* two different names that differ only by an exclamation mark were greeted
C9_Witness ==
    /\ Len(calls) = 2
    /\ calls[1].args = <<Str(<<"a">>)>>
    /\ calls[2].args = <<Str(<<"a", "!">>)>>
    /\ calls[1].out # calls[2].out

----------------------------------------------------------------------------
(* C10 *)

\* C10: the default is substituted only when the argument is omitted, never
\* because of its value: an explicit "" or None is formatted as given, so
\* greet("") differs from greet() and greet(None) returns "Hello, None!",
\* not "Hello, World!".
C10_DefaultOnlyWhenOmitted ==
    /\ \A i \in DOMAIN calls :
          /\ calls[i].args = <<Str(<<>>)>>
               => calls[i].out = Return(Str(HelloEmptyText))
          /\ calls[i].args = <<None>>
               => calls[i].out = Return(Str(HelloNoneText))
    /\ \A i, j \in DOMAIN calls :
          (calls[i].args = <<>> /\ calls[j].args \in {<<Str(<<>>)>>, <<None>>})
               => calls[i].out # calls[j].out

\* greet() was called and then greet(None)
C10_Witness ==
    /\ Len(calls) = 2
    /\ calls[1].args = <<>>
    /\ calls[2].args = <<None>>
    /\ ret = Return(Str(HelloNoneText))

====
